---- MODULE Spec2Model ----
(***************************************************************************)
(* Model of the Mergington High School activities service:                 *)
(*   src/src/app.py            the HTTP handlers over the in-memory        *)
(*                             activity catalog (signup, unregister,       *)
(*                             search_activities)                          *)
(*   src/src/search_engine.py  SearchEngine (inverted index, search,       *)
(*                             recent searches, suggestions)               *)
(*   src/src/filters.py        FilterManager (option sets, validation)     *)
(*                                                                         *)
(* Python strings are modelled as sequences of code points, so that        *)
(* lower(), split(), startswith(), substring tests and string comparison   *)
(* are computed the way the interpreter computes them.                     *)
(***************************************************************************)
EXTENDS Integers, Sequences, FiniteSets, TLC

----------------------------------------------------------------------------
(* Python built-ins used by the code                                       *)

\* str.lower() on ASCII text
Lower(s) == [i \in 1..Len(s) |-> IF s[i] \in 65..90 THEN s[i] + 32 ELSE s[i]]

\* the characters str.split() and str.strip() treat as whitespace
IsSpace(c) == c \in {9, 10, 11, 12, 13, 32}

\* `sub in s` for strings
Contains(sub, s) ==
  \/ sub = <<>>
  \/ \E i \in 0..(Len(s) - Len(sub)) :
       s[i + 1] = sub[1] /\ SubSeq(s, i + 1, i + Len(sub)) = sub

\* s.startswith(p)
StartsWith(s, p) == Len(p) <= Len(s) /\ SubSeq(s, 1, Len(p)) = p

\* `not s.strip()`
IsBlank(s) == \A i \in 1..Len(s) : IsSpace(s[i])

\* s.split(): the maximal runs of non-whitespace characters, left to right
RECURSIVE SplitFrom(_, _, _)
SplitFrom(s, i, cur) ==
  IF i > Len(s)
  THEN IF cur = <<>> THEN <<>> ELSE <<cur>>
  ELSE IF IsSpace(s[i])
       THEN (IF cur = <<>> THEN <<>> ELSE <<cur>>) \o SplitFrom(s, i + 1, <<>>)
       ELSE SplitFrom(s, i + 1, Append(cur, s[i]))

Split(s) == SplitFrom(s, 1, <<>>)

\* ' '.join(parts)
RECURSIVE JoinSpace(_)
JoinSpace(parts) ==
  IF parts = <<>> THEN <<>>
  ELSE IF Len(parts) = 1 THEN parts[1]
  ELSE parts[1] \o <<32>> \o JoinSpace(Tail(parts))

\* a < b for strings (code point order)
RECURSIVE StrLess(_, _)
StrLess(a, b) ==
  IF b = <<>> THEN FALSE
  ELSE IF a = <<>> THEN TRUE
  ELSE IF a[1] # b[1] THEN a[1] < b[1]
  ELSE StrLess(Tail(a), Tail(b))

\* x in list
InList(x, list) == \E i \in 1..Len(list) : list[i] = x

\* list[:n]
Take(list, n) == SubSeq(list, 1, IF Len(list) < n THEN Len(list) ELSE n)

\* ListRemove dropping the head of the list, as list.pop(0) would
ListRemove_PopFront(list, x) == Tail(list)

\* list.remove(x), which removes the first occurrence; the caller handles
\* the ValueError of an absent x
ListRemove(list, x) ==
  LET i == CHOOSE k \in 1..Len(list) :
             list[k] = x /\ \A j \in 1..(k - 1) : list[j] # x
  IN SubSeq(list, 1, i - 1) \o SubSeq(list, i + 1, Len(list))

\* KeyBefore that ignores reverse=True
KeyBefore_Ascending(a, b, strKeys, reverse) ==
  IF strKeys THEN StrLess(a, b) ELSE a < b

\* key order used by sorted(): code point order for str keys, numeric order
\* for int keys; reverse=True swaps the comparison
KeyBefore(a, b, strKeys, reverse) ==
  LET x == IF reverse THEN b ELSE a
      y == IF reverse THEN a ELSE b
  IN IF strKeys THEN StrLess(x, y) ELSE x < y

\* sorted(items, key=..., reverse=...) over <<key, item>> pairs. Python's sort
\* is stable, also with reverse=True: items with equal keys keep their order
RECURSIVE InsertSorted(_, _, _, _)
InsertSorted(sortedSeq, x, strKeys, reverse) ==
  IF sortedSeq = <<>> THEN <<x>>
  ELSE IF KeyBefore(x[1], sortedSeq[Len(sortedSeq)][1], strKeys, reverse)
       THEN Append(InsertSorted(SubSeq(sortedSeq, 1, Len(sortedSeq) - 1), x,
                                strKeys, reverse),
                   sortedSeq[Len(sortedSeq)])
       ELSE Append(sortedSeq, x)

RECURSIVE Sorted(_, _, _)
Sorted(pairs, strKeys, reverse) ==
  IF pairs = <<>> THEN <<>>
  ELSE InsertSorted(Sorted(SubSeq(pairs, 1, Len(pairs) - 1), strKeys, reverse),
                    pairs[Len(pairs)], strKeys, reverse)

----------------------------------------------------------------------------
(* app.py: the in-memory activity database, in dict insertion order        *)

ActivityData ==
  << \* "Chess Club": "Learn strategies and compete in chess tournaments"
     \*   schedule "Fridays, 3:30 PM - 5:00 PM", category "Academic"
     \*   participants ['michael@mergington.edu', 'daniel@mergington.edu']
     [ name |-> <<67,104,101,115,115,32,67,108,117,98>>,
       description |->
         <<76,101,97,114,110,32,115,116,114,97,116,101,103,105,101,115,32,97,110,100,32,99,111,109,112,101,116,101,32,105,110,32,99,104,101,115,115,32,116,111,117,114,110,97,109,101,110,116,115>>,
       schedule |->
         <<70,114,105,100,97,121,115,44,32,51,58,51,48,32,80,77,32,45,32,53,58,48,48,32,80,77>>,
       max_participants |-> 12,
       participants |->
         << <<109,105,99,104,97,101,108,64,109,101,114,103,105,110,103,116,111,110,46,101,100,117>>,
            <<100,97,110,105,101,108,64,109,101,114,103,105,110,103,116,111,110,46,101,100,117>> >>,
       category |-> <<65,99,97,100,101,109,105,99>> ],
     \* "Programming Class": "Learn programming fundamentals and build software projects"
     \*   schedule "Tuesdays and Thursdays, 3:30 PM - 4:30 PM", category "Academic"
     \*   participants ['emma@mergington.edu', 'sophia@mergington.edu']
     [ name |-> <<80,114,111,103,114,97,109,109,105,110,103,32,67,108,97,115,115>>,
       description |->
         <<76,101,97,114,110,32,112,114,111,103,114,97,109,109,105,110,103,32,102,117,110,100,97,109,101,110,116,97,108,115,32,97,110,100,32,98,117,105,108,100,32,115,111,102,116,119,97,114,101,32,112,114,111,106,101,99,116,115>>,
       schedule |->
         <<84,117,101,115,100,97,121,115,32,97,110,100,32,84,104,117,114,115,100,97,121,115,44,32,51,58,51,48,32,80,77,32,45,32,52,58,51,48,32,80,77>>,
       max_participants |-> 20,
       participants |->
         << <<101,109,109,97,64,109,101,114,103,105,110,103,116,111,110,46,101,100,117>>,
            <<115,111,112,104,105,97,64,109,101,114,103,105,110,103,116,111,110,46,101,100,117>> >>,
       category |-> <<65,99,97,100,101,109,105,99>> ],
     \* "Gym Class": "Physical education and sports activities"
     \*   schedule "Mondays, Wednesdays, Fridays, 2:00 PM - 3:00 PM", category "Sports"
     \*   participants ['john@mergington.edu', 'olivia@mergington.edu']
     [ name |-> <<71,121,109,32,67,108,97,115,115>>,
       description |->
         <<80,104,121,115,105,99,97,108,32,101,100,117,99,97,116,105,111,110,32,97,110,100,32,115,112,111,114,116,115,32,97,99,116,105,118,105,116,105,101,115>>,
       schedule |->
         <<77,111,110,100,97,121,115,44,32,87,101,100,110,101,115,100,97,121,115,44,32,70,114,105,100,97,121,115,44,32,50,58,48,48,32,80,77,32,45,32,51,58,48,48,32,80,77>>,
       max_participants |-> 30,
       participants |->
         << <<106,111,104,110,64,109,101,114,103,105,110,103,116,111,110,46,101,100,117>>,
            <<111,108,105,118,105,97,64,109,101,114,103,105,110,103,116,111,110,46,101,100,117>> >>,
       category |-> <<83,112,111,114,116,115>> ],
     \* "Soccer Team": "Join the school soccer team and compete in matches"
     \*   schedule "Tuesdays and Thursdays, 4:00 PM - 5:30 PM", category "Sports"
     \*   participants ['liam@mergington.edu', 'noah@mergington.edu']
     [ name |-> <<83,111,99,99,101,114,32,84,101,97,109>>,
       description |->
         <<74,111,105,110,32,116,104,101,32,115,99,104,111,111,108,32,115,111,99,99,101,114,32,116,101,97,109,32,97,110,100,32,99,111,109,112,101,116,101,32,105,110,32,109,97,116,99,104,101,115>>,
       schedule |->
         <<84,117,101,115,100,97,121,115,32,97,110,100,32,84,104,117,114,115,100,97,121,115,44,32,52,58,48,48,32,80,77,32,45,32,53,58,51,48,32,80,77>>,
       max_participants |-> 22,
       participants |->
         << <<108,105,97,109,64,109,101,114,103,105,110,103,116,111,110,46,101,100,117>>,
            <<110,111,97,104,64,109,101,114,103,105,110,103,116,111,110,46,101,100,117>> >>,
       category |-> <<83,112,111,114,116,115>> ],
     \* "Basketball Team": "Practice and play basketball with the school team"
     \*   schedule "Wednesdays and Fridays, 3:30 PM - 5:00 PM", category "Sports"
     \*   participants ['ava@mergington.edu', 'mia@mergington.edu']
     [ name |-> <<66,97,115,107,101,116,98,97,108,108,32,84,101,97,109>>,
       description |->
         <<80,114,97,99,116,105,99,101,32,97,110,100,32,112,108,97,121,32,98,97,115,107,101,116,98,97,108,108,32,119,105,116,104,32,116,104,101,32,115,99,104,111,111,108,32,116,101,97,109>>,
       schedule |->
         <<87,101,100,110,101,115,100,97,121,115,32,97,110,100,32,70,114,105,100,97,121,115,44,32,51,58,51,48,32,80,77,32,45,32,53,58,48,48,32,80,77>>,
       max_participants |-> 15,
       participants |->
         << <<97,118,97,64,109,101,114,103,105,110,103,116,111,110,46,101,100,117>>,
            <<109,105,97,64,109,101,114,103,105,110,103,116,111,110,46,101,100,117>> >>,
       category |-> <<83,112,111,114,116,115>> ],
     \* "Art Club": "Explore your creativity through painting and drawing"
     \*   schedule "Thursdays, 3:30 PM - 5:00 PM", category "Arts"
     \*   participants ['amelia@mergington.edu', 'harper@mergington.edu']
     [ name |-> <<65,114,116,32,67,108,117,98>>,
       description |->
         <<69,120,112,108,111,114,101,32,121,111,117,114,32,99,114,101,97,116,105,118,105,116,121,32,116,104,114,111,117,103,104,32,112,97,105,110,116,105,110,103,32,97,110,100,32,100,114,97,119,105,110,103>>,
       schedule |->
         <<84,104,117,114,115,100,97,121,115,44,32,51,58,51,48,32,80,77,32,45,32,53,58,48,48,32,80,77>>,
       max_participants |-> 15,
       participants |->
         << <<97,109,101,108,105,97,64,109,101,114,103,105,110,103,116,111,110,46,101,100,117>>,
            <<104,97,114,112,101,114,64,109,101,114,103,105,110,103,116,111,110,46,101,100,117>> >>,
       category |-> <<65,114,116,115>> ],
     \* "Drama Club": "Act, direct, and produce plays and performances"
     \*   schedule "Mondays and Wednesdays, 4:00 PM - 5:30 PM", category "Arts"
     \*   participants ['ella@mergington.edu', 'scarlett@mergington.edu']
     [ name |-> <<68,114,97,109,97,32,67,108,117,98>>,
       description |->
         <<65,99,116,44,32,100,105,114,101,99,116,44,32,97,110,100,32,112,114,111,100,117,99,101,32,112,108,97,121,115,32,97,110,100,32,112,101,114,102,111,114,109,97,110,99,101,115>>,
       schedule |->
         <<77,111,110,100,97,121,115,32,97,110,100,32,87,101,100,110,101,115,100,97,121,115,44,32,52,58,48,48,32,80,77,32,45,32,53,58,51,48,32,80,77>>,
       max_participants |-> 20,
       participants |->
         << <<101,108,108,97,64,109,101,114,103,105,110,103,116,111,110,46,101,100,117>>,
            <<115,99,97,114,108,101,116,116,64,109,101,114,103,105,110,103,116,111,110,46,101,100,117>> >>,
       category |-> <<65,114,116,115>> ],
     \* "Math Club": "Solve challenging problems and participate in math competitions"
     \*   schedule "Tuesdays, 3:30 PM - 4:30 PM", category "Academic"
     \*   participants ['james@mergington.edu', 'benjamin@mergington.edu']
     [ name |-> <<77,97,116,104,32,67,108,117,98>>,
       description |->
         <<83,111,108,118,101,32,99,104,97,108,108,101,110,103,105,110,103,32,112,114,111,98,108,101,109,115,32,97,110,100,32,112,97,114,116,105,99,105,112,97,116,101,32,105,110,32,109,97,116,104,32,99,111,109,112,101,116,105,116,105,111,110,115>>,
       schedule |->
         <<84,117,101,115,100,97,121,115,44,32,51,58,51,48,32,80,77,32,45,32,52,58,51,48,32,80,77>>,
       max_participants |-> 10,
       participants |->
         << <<106,97,109,101,115,64,109,101,114,103,105,110,103,116,111,110,46,101,100,117>>,
            <<98,101,110,106,97,109,105,110,64,109,101,114,103,105,110,103,116,111,110,46,101,100,117>> >>,
       category |-> <<65,99,97,100,101,109,105,99>> ],
     \* "Debate Team": "Develop public speaking and argumentation skills"
     \*   schedule "Fridays, 4:00 PM - 5:30 PM", category "Academic"
     \*   participants ['charlotte@mergington.edu', 'henry@mergington.edu']
     [ name |-> <<68,101,98,97,116,101,32,84,101,97,109>>,
       description |->
         <<68,101,118,101,108,111,112,32,112,117,98,108,105,99,32,115,112,101,97,107,105,110,103,32,97,110,100,32,97,114,103,117,109,101,110,116,97,116,105,111,110,32,115,107,105,108,108,115>>,
       schedule |->
         <<70,114,105,100,97,121,115,44,32,52,58,48,48,32,80,77,32,45,32,53,58,51,48,32,80,77>>,
       max_participants |-> 12,
       participants |->
         << <<99,104,97,114,108,111,116,116,101,64,109,101,114,103,105,110,103,116,111,110,46,101,100,117>>,
            <<104,101,110,114,121,64,109,101,114,103,105,110,103,116,111,110,46,101,100,117>> >>,
       category |-> <<65,99,97,100,101,109,105,99>> ],
     \* "GitHub Skills": "Learn practical coding and collaboration skills through GitHub. Part of our GitHub Certifications program to help with college applications"
     \*   schedule "Mondays and Wednesdays, 3:30 PM - 5:00 PM", category "Academic"
     \*   participants []
     [ name |-> <<71,105,116,72,117,98,32,83,107,105,108,108,115>>,
       description |->
         <<76,101,97,114,110,32,112,114,97,99,116,105,99,97,108,32,99,111,100,105,110,103,32,97,110,100,32,99,111,108,108,97,98,111,114,97,116,105,111,110,32,115,107,105,108,108,115,32,116,104,114,111,117,103,104,32,71,105,116,72,117,98,46,32,80,97,114,116,32,111,102,32,111,117,114,32,71,105,116,72,117,98,32,67,101,114,116,105,102,105,99,97,116,105,111,110,115,32,112,114,111,103,114,97,109,32,116,111,32,104,101,108,112,32,119,105,116,104,32,99,111,108,108,101,103,101,32,97,112,112,108,105,99,97,116,105,111,110,115>>,
       schedule |->
         <<77,111,110,100,97,121,115,32,97,110,100,32,87,101,100,110,101,115,100,97,121,115,44,32,51,58,51,48,32,80,77,32,45,32,53,58,48,48,32,80,77>>,
       max_participants |-> 25,
       participants |->
         <<  >>,
       category |-> <<65,99,97,100,101,109,105,99>> ] >>

\* the keys of the activities dict
ActivityKeys == 1..Len(ActivityData)

\* position of activity_name among the dict's keys, 0 when it is not a key
ActivityIndex(activity_name) ==
  IF \E i \in ActivityKeys : ActivityData[i].name = activity_name
  THEN CHOOSE i \in ActivityKeys : ActivityData[i].name = activity_name
  ELSE 0

\* name.lower(), description.lower(), category.lower() and schedule.lower()
\* of every entry, as search_activities computes them in its loop
LowerData ==
  [ i \in ActivityKeys |->
      [ name |-> Lower(ActivityData[i].name),
        description |-> Lower(ActivityData[i].description),
        category |-> Lower(ActivityData[i].category),
        schedule |-> Lower(ActivityData[i].schedule) ] ]

\* the participants lists of the database as the module defines it
InitialParticipants == [i \in ActivityKeys |-> ActivityData[i].participants]

----------------------------------------------------------------------------
(* State                                                                   *)

VARIABLES
  participants,          \* app.py: activities[name]["participants"], by key
  response,              \* app.py: the response of the last request handled
  handlers,              \* app.py: requests in flight in the worker threads
  se_activities,         \* SearchEngine.activities
  search_index,          \* SearchEngine.search_index: <<word, id set>> in insertion order
  recent_searches,       \* SearchEngine.recent_searches
  se_result,             \* SearchEngine: the value returned by the last call
  available_categories,  \* FilterManager.available_categories
  available_schedules,   \* FilterManager.available_schedules
  validated              \* FilterManager: the outcome of the last validate_filters call

appVars    == <<participants, response>>
engineVars == <<se_activities, search_index, recent_searches, se_result>>
filterVars == <<available_categories, available_schedules, validated>>
vars == <<participants, response, handlers, se_activities, search_index,
          recent_searches, se_result, available_categories,
          available_schedules, validated>>

----------------------------------------------------------------------------
(* app.py: signup and unregister                                           *)

\* Optional values: <<>> is None, <<v>> is the value v
None == <<>>
Some(v) == <<v>>

\* the fields every response record of the model carries
Reply(op, status, activity_name, email) ==
  [ op |-> op, status |-> status, activity_name |-> activity_name,
    email |-> email, q |-> None, category |-> None, available |-> None,
    sort_by |-> None, day |-> None, total |-> 0, results |-> <<>> ]

NoReply == Reply("none", 0, <<>>, <<>>)

\* SignupOutcome without the test of line 249
SignupOutcome_NoMembershipTest(rosters, activity_name, email) ==
  LET i == ActivityIndex(activity_name) IN
  IF i = 0
  THEN [status |-> 404, rosters |-> rosters]
  ELSE [status |-> 200, rosters |-> [rosters EXCEPT ![i] = Append(@, email)]]

\* signup_for_activity as a function of the participants lists: the status
\* of the response and the lists afterwards
SignupOutcome(rosters, activity_name, email) ==
  LET i == ActivityIndex(activity_name) IN
  IF i = 0
  THEN \* HTTPException(404, "Activity not found")
       [status |-> 404, rosters |-> rosters]
  ELSE IF InList(email, rosters[i])
  THEN \* HTTPException(400, "Student is already signed up")
       [status |-> 400, rosters |-> rosters]
  ELSE [status |-> 200, rosters |-> [rosters EXCEPT ![i] = Append(@, email)]]

\* unregister_from_activity as a function of the participants lists
UnregisterOutcome(rosters, activity_name, email) ==
  LET i == ActivityIndex(activity_name) IN
  IF i = 0
  THEN \* HTTPException(404, "Activity not found")
       [status |-> 404, rosters |-> rosters]
  ELSE IF ~InList(email, rosters[i])
  THEN \* HTTPException(400, "Student is not signed up for this activity")
       [status |-> 400, rosters |-> rosters]
  ELSE [status |-> 200, rosters |-> [rosters EXCEPT ![i] = ListRemove(@, email)]]

\* POST /activities/{activity_name}/signup
signup_for_activity(activity_name, email) ==
  LET outcome == SignupOutcome(participants, activity_name, email)
  IN /\ participants' = outcome.rosters
     /\ response' = Reply("signup", outcome.status, activity_name, email)

\* DELETE /activities/{activity_name}/unregister
unregister_from_activity(activity_name, email) ==
  LET outcome == UnregisterOutcome(participants, activity_name, email)
  IN /\ participants' = outcome.rosters
     /\ response' = Reply("unregister", outcome.status, activity_name, email)

----------------------------------------------------------------------------
(* app.py: search_activities                                               *)

\* the `include` flag computed for one activity by the loop of search_activities
Include(i, rosters, q, category, available, day) ==
  LET data == ActivityData[i]
      \* `if q:` and the two substring tests
      okQuery ==
        IF q # None /\ q[1] # <<>>
        THEN LET search_term == Lower(q[1])
             IN ~(  ~Contains(search_term, LowerData[i].name)
                  /\ ~Contains(search_term, LowerData[i].description))
        ELSE TRUE
      \* `if category and include:`
      okCategory ==
        IF category # None /\ category[1] # <<>>
        THEN LowerData[i].category = Lower(category[1])
        ELSE TRUE
      \* `if available is not None and include:`
      okAvailable ==
        IF available # None
        THEN LET has_space == Len(rosters[i]) < data.max_participants
             IN available[1] = has_space
        ELSE TRUE
      \* `if day and include:`
      okDay ==
        IF day # None /\ day[1] # <<>>
        THEN Contains(Lower(day[1]), LowerData[i].schedule)
        ELSE TRUE
  IN okQuery /\ okCategory /\ okAvailable /\ okDay

\* the keys of `results` before sorting, in the order the loop inserts them
RECURSIVE Included(_, _, _, _, _, _)
Included(i, rosters, q, category, available, day) ==
  IF i > Len(ActivityData) THEN <<>>
  ELSE (IF Include(i, rosters, q, category, available, day) THEN <<i>> ELSE <<>>)
       \o Included(i + 1, rosters, q, category, available, day)

\* the sort key of one entry for each SortBy value
SortKey(i, rosters, sort_by) ==
  IF sort_by = Some("name") THEN LowerData[i].name
  ELSE IF sort_by = Some("participants") THEN Len(rosters[i])
  ELSE ActivityData[i].max_participants - Len(rosters[i])

\* the `# Sort results` block: the keys of the returned dict, in order
SortResults(keys, rosters, sort_by) ==
  IF sort_by = None THEN keys
  ELSE LET pairs == [k \in 1..Len(keys) |-> <<SortKey(keys[k], rosters, sort_by), keys[k]>>]
           sortedPairs == Sorted(pairs, sort_by = Some("name"), sort_by # Some("name"))
       IN [k \in 1..Len(keys) |-> sortedPairs[k][2]]

\* GET /activities/search
search_activities(q, category, available, sort_by, day) ==
  LET results == SortResults(Included(1, participants, q, category, available, day),
                             participants, sort_by)
  IN /\ response' = [ Reply("search", 200, <<>>, <<>>) EXCEPT
                        !.q = q, !.category = category, !.available = available,
                        !.sort_by = sort_by, !.day = day,
                        !.total = Len(results), !.results = results ]
     /\ UNCHANGED participants

----------------------------------------------------------------------------
(* app.py: requests handled concurrently. FastAPI runs a `def` endpoint in *)
(* a worker thread, so two handlers interleave between their statements.   *)

IdleHandler == [pc |-> "idle", op |-> "none", activity_name |-> <<>>,
                email |-> <<>>, status |-> 0]

\* lines 242-253 / 264-275: both validations of one handler; the request
\* either is rejected or stands before its list mutation
handler_validate(t, op, activity_name, email) ==
  LET i == ActivityIndex(activity_name)
      req == [IdleHandler EXCEPT !.op = op, !.activity_name = activity_name,
                                 !.email = email]
  IN /\ handlers[t].pc = "idle"
     /\ handlers' = [handlers EXCEPT ![t] =
          IF i = 0
          THEN [req EXCEPT !.pc = "done", !.status = 404]
          ELSE IF (op = "signup") = InList(email, participants[i])
          THEN [req EXCEPT !.pc = "done", !.status = 400]
          ELSE [req EXCEPT !.pc = "mutate"]]
     /\ UNCHANGED participants

\* lines 256 / 278: the append or remove; list.remove raises ValueError when
\* the email is gone, which the server answers with status 500
handler_mutate(t) ==
  LET h == handlers[t]
      i == ActivityIndex(h.activity_name)
  IN /\ h.pc = "mutate"
     /\ IF h.op = "signup"
        THEN /\ participants' = [participants EXCEPT ![i] = Append(@, h.email)]
             /\ handlers' = [handlers EXCEPT ![t].pc = "done", ![t].status = 200]
        ELSE IF InList(h.email, participants[i])
        THEN /\ participants' = [participants EXCEPT ![i] = ListRemove(@, h.email)]
             /\ handlers' = [handlers EXCEPT ![t].pc = "done", ![t].status = 200]
        ELSE /\ UNCHANGED participants
             /\ handlers' = [handlers EXCEPT ![t].pc = "done", ![t].status = 500]

\* the response is sent and the worker thread is free again
handler_return(t) ==
  /\ handlers[t].pc = "done"
  /\ handlers' = [handlers EXCEPT ![t] = IdleHandler]
  /\ UNCHANGED participants

----------------------------------------------------------------------------
(* search_engine.py: SearchEngine                                          *)

\* activity records handed to the engine: the catalog entries with the id,
\* tags, popularity and available keys the engine reads (schedule, name and
\* the texts are the entries' own)
EngineCatalog ==
  << \* "Chess Club", tags ['Strategy', 'Board Games']
     [ id |-> 1, name |-> ActivityData[1].name,
       description |-> ActivityData[1].description,
       category |-> ActivityData[1].category,
       schedule |-> ActivityData[1].schedule,
       tags |-> << <<83,116,114,97,116,101,103,121>>, <<66,111,97,114,100,32,71,97,109,101,115>> >>,
       popularity |-> 7, available |-> Some(TRUE) ],
     \* "Math Club", tags []
     [ id |-> 2, name |-> ActivityData[8].name,
       description |-> ActivityData[8].description,
       category |-> ActivityData[8].category,
       schedule |-> ActivityData[8].schedule,
       tags |-> <<>>,
       popularity |-> 0, available |-> None ],
     \* "Art Club", tags ['Painting']
     [ id |-> 3, name |-> ActivityData[6].name,
       description |-> ActivityData[6].description,
       category |-> ActivityData[6].category,
       schedule |-> ActivityData[6].schedule,
       tags |-> << <<80,97,105,110,116,105,110,103>> >>,
       popularity |-> 3, available |-> Some(TRUE) ] >>

\* a filters dict: each key is absent (None) or present (Some(value)); None
\* and {} are both falsy and are the record with every key absent
Filters(category, availability, schedule, min_popularity) ==
  [ category |-> category, availability |-> availability,
    schedule |-> schedule, min_popularity |-> min_popularity ]

NoFilters == Filters(None, None, None, None)

\* the value a call returned
Result(op, query, filters, out) ==
  [op |-> op, query |-> query, filters |-> filters, out |-> out]

NoResult == Result("none", <<>>, NoFilters, <<>>)

\* SearchEngine._create_searchable_text
_create_searchable_text(activity) ==
  LET searchable_fields == << activity.name, activity.description,
                              activity.category, JoinSpace(activity.tags) >>
  IN JoinSpace(SelectSeq(searchable_fields, LAMBDA f : f # <<>>))

\* self.search_index.get(word, set())
IndexGet(index, word) ==
  IF \E k \in 1..Len(index) : index[k][1] = word
  THEN LET k == CHOOSE j \in 1..Len(index) : index[j][1] = word IN index[k][2]
  ELSE {}

\* one pass of the loop of index_activity
IndexWord(index, word, activity_id) ==
  IF \E k \in 1..Len(index) : index[k][1] = word
  THEN [k \in 1..Len(index) |->
          IF index[k][1] = word
          THEN <<word, index[k][2] \cup {activity_id}>>
          ELSE index[k]]
  ELSE Append(index, <<word, {activity_id}>>)

RECURSIVE IndexWords(_, _, _)
IndexWords(index, words, activity_id) ==
  IF words = <<>> THEN index
  ELSE IndexWords(IndexWord(index, words[1], activity_id), Tail(words), activity_id)

\* SearchEngine.index_activity as a function of the index
IndexActivity(index, activity) ==
  IndexWords(index, Split(Lower(_create_searchable_text(activity))), activity.id)

\* _find_matching_ids that unites the posting sets (OR instead of AND)
RECURSIVE UniteRest(_, _, _)
UniteRest(index, matching_ids, words) ==
  IF words = <<>> THEN matching_ids
  ELSE UniteRest(index, matching_ids \cup IndexGet(index, words[1]), Tail(words))

_find_matching_ids_Union(index, query_words) ==
  IF query_words = <<>> THEN {}
  ELSE UniteRest(index, IndexGet(index, query_words[1]), Tail(query_words))

\* SearchEngine._find_matching_ids
RECURSIVE IntersectRest(_, _, _)
IntersectRest(index, matching_ids, words) ==
  IF words = <<>> THEN matching_ids
  ELSE IntersectRest(index, matching_ids \cap IndexGet(index, words[1]), Tail(words))

_find_matching_ids(index, query_words) ==
  IF query_words = <<>> THEN {}
  ELSE IntersectRest(index, IndexGet(index, query_words[1]), Tail(query_words))

\* SearchEngine._apply_filters
_apply_filters(activities, filters) ==
  LET f1 == IF filters.category # None
            THEN SelectSeq(activities, LAMBDA a : a.category = filters.category[1])
            ELSE activities
      f2 == IF filters.availability # None
            THEN SelectSeq(f1, LAMBDA a : a.available = filters.availability)
            ELSE f1
      f3 == IF filters.schedule # None
            THEN SelectSeq(f2, LAMBDA a : a.schedule = filters.schedule[1])
            ELSE f2
      f4 == IF filters.min_popularity # None
            THEN SelectSeq(f3, LAMBDA a : a.popularity >= filters.min_popularity[1])
            ELSE f3
  IN f4

\* relevance_score, times ten: 10.0, 5.0 and 3.0 for the three substring
\* matches plus popularity * 0.1 (the popularities stay below 20, so the
\* scaled integers order the records exactly as the floats do)
relevance_score(activity, query) ==
  LET query_lower == Lower(query)
  IN   (IF Contains(query_lower, Lower(activity.name)) THEN 100 ELSE 0)
     + (IF Contains(query_lower, Lower(activity.description)) THEN 50 ELSE 0)
     + (IF Contains(query_lower, Lower(activity.category)) THEN 30 ELSE 0)
     + activity.popularity

\* SearchEngine._rank_results
_rank_results(results, query) ==
  LET pairs == [k \in 1..Len(results) |-> <<relevance_score(results[k], query), results[k]>>]
      sortedPairs == Sorted(pairs, FALSE, TRUE)
  IN [k \in 1..Len(results) |-> sortedPairs[k][2]]

\* the length SearchEngine._add_recent_search cuts the list to
MaxRecent == 10

\* _add_recent_search without the cut of line 124
_add_recent_search_NoCut(recent, query) ==
  LET removed == IF InList(query, recent) THEN ListRemove(recent, query) ELSE recent
  IN <<query>> \o removed

\* SearchEngine._add_recent_search
_add_recent_search(recent, query) ==
  LET removed == IF InList(query, recent) THEN ListRemove(recent, query) ELSE recent
  IN Take(<<query>> \o removed, MaxRecent)

\* SearchEngine.filter_activities as a function
FilterActivities(activities, filters) == _apply_filters(activities, filters)

\* the list SearchEngine.search returns
SearchResults(activities, index, query, filters) ==
  IF IsBlank(query)
  THEN IF filters # NoFilters THEN FilterActivities(activities, filters) ELSE activities
  ELSE LET query_words == Split(Lower(query))
           matching_ids == _find_matching_ids(index, query_words)
           results == SelectSeq(activities, LAMBDA a : a.id \in matching_ids)
           filtered == IF filters # NoFilters THEN _apply_filters(results, filters)
                       ELSE results
       IN _rank_results(filtered, query)

\* the maximum number of suggestions
MaxSuggestions == 5

\* the two loops of get_suggestions
RECURSIVE AddIndexedWords(_, _, _)
AddIndexedWords(suggestions, index, partial_lower) ==
  IF index = <<>> THEN suggestions
  ELSE LET word == index[1][1]
       IN AddIndexedWords(
            IF StartsWith(word, partial_lower) /\ ~InList(word, suggestions)
            THEN Append(suggestions, word) ELSE suggestions,
            Tail(index), partial_lower)

\* Suggestions whose second loop lacks the test `word not in suggestions`
Suggestions_Repeating(recent, index, partial_query) ==
  IF partial_query = <<>>
  THEN Take(recent, MaxSuggestions)
  ELSE LET partial_lower == Lower(partial_query)
           fromRecent == SelectSeq(recent, LAMBDA s : Contains(partial_lower, Lower(s)))
           fromIndex == SelectSeq([k \in 1..Len(index) |-> index[k][1]],
                                  LAMBDA w : StartsWith(w, partial_lower))
       IN Take(fromRecent \o fromIndex, MaxSuggestions)

\* the list SearchEngine.get_suggestions returns
Suggestions(recent, index, partial_query) ==
  IF partial_query = <<>>
  THEN Take(recent, MaxSuggestions)
  ELSE LET partial_lower == Lower(partial_query)
           fromRecent == SelectSeq(recent, LAMBDA s : Contains(partial_lower, Lower(s)))
       IN Take(AddIndexedWords(fromRecent, index, partial_lower), MaxSuggestions)

\* the caller hands the engine its activity records: no method fills
\* self.activities, the attribute is assigned from outside
assign_activities ==
  /\ se_activities = <<>>
  /\ se_activities' = EngineCatalog
  /\ se_result' = Result("assign_activities", <<>>, NoFilters, <<>>)
  /\ UNCHANGED <<search_index, recent_searches>>

\* SearchEngine.index_activity
index_activity(activity) ==
  /\ search_index' = IndexActivity(search_index, activity)
  /\ se_result' = Result("index_activity", <<>>, NoFilters, <<>>)
  /\ UNCHANGED <<se_activities, recent_searches>>

\* SearchEngine.search
search(query, filters) ==
  /\ recent_searches' = IF IsBlank(query) THEN recent_searches
                        ELSE _add_recent_search(recent_searches, query)
  /\ se_result' = Result("search", query, filters,
                         SearchResults(se_activities, search_index, query, filters))
  /\ UNCHANGED <<se_activities, search_index>>

\* SearchEngine.filter_activities
filter_activities(filters) ==
  /\ se_result' = Result("filter_activities", <<>>, filters,
                         FilterActivities(se_activities, filters))
  /\ UNCHANGED <<se_activities, search_index, recent_searches>>

\* SearchEngine.get_suggestions
get_suggestions(partial_query) ==
  /\ se_result' = Result("get_suggestions", partial_query, NoFilters,
                         Suggestions(recent_searches, search_index, partial_query))
  /\ UNCHANGED <<se_activities, search_index, recent_searches>>

----------------------------------------------------------------------------
(* filters.py: FilterManager                                               *)

\* Python values a filters dict can hold, tagged with their type; v holds the
\* value as integers: <<n>> for an int, <<0>> or <<1>> for a bool, the code
\* points of a str, <<numerator, denominator>> for a float (denominator 0:
\* <<1, 0>> is inf, <<0, 0>> is nan), <<>> for None and for a list
PyInt(n) == [t |-> "int", v |-> <<n>>]
PyBool(b) == [t |-> "bool", v |-> <<IF b THEN 1 ELSE 0>>]
PyStr(s) == [t |-> "str", v |-> s]
PyFloat(num, den) == [t |-> "float", v |-> <<num, den>>]
PyNone == [t |-> "NoneType", v |-> <<>>]
PyList == [t |-> "list", v |-> <<>>]

\* s.strip()
RECURSIVE LStrip(_)
LStrip(s) == IF s # <<>> /\ IsSpace(s[1]) THEN LStrip(Tail(s)) ELSE s

RECURSIVE RStrip(_)
RStrip(s) ==
  IF s # <<>> /\ IsSpace(s[Len(s)]) THEN RStrip(SubSeq(s, 1, Len(s) - 1)) ELSE s

Strip(s) == RStrip(LStrip(s))

\* the value of a string of decimal digits
RECURSIVE DigitsValue(_)
DigitsValue(ds) ==
  IF ds = <<>> THEN 0
  ELSE 10 * DigitsValue(SubSeq(ds, 1, Len(ds) - 1)) + (ds[Len(ds)] - 48)

\* int(x): the integer, or the exception the conversion raises
IntOf(x) ==
  IF x.t = "int" THEN [err |-> "none", v |-> x.v[1]]
  ELSE IF x.t = "bool" THEN [err |-> "none", v |-> x.v[1]]
  ELSE IF x.t = "float"
  THEN IF x.v[2] = 0
       THEN \* int(nan) is a ValueError, int(inf) an OverflowError
            [err |-> IF x.v[1] = 0 THEN "ValueError" ELSE "OverflowError", v |-> 0]
       ELSE \* truncation towards zero
            [err |-> "none",
             v |-> IF x.v[1] >= 0 THEN x.v[1] \div x.v[2]
                   ELSE 0 - ((0 - x.v[1]) \div x.v[2])]
  ELSE IF x.t = "str"
  THEN LET stripped == Strip(x.v)
           signed == stripped # <<>> /\ stripped[1] \in {43, 45}
           body == IF signed THEN Tail(stripped) ELSE stripped
           \* digits, with single underscores allowed between digits
           wellFormed ==
             /\ body # <<>>
             /\ \A k \in 1..Len(body) : body[k] \in (48..57) \cup {95}
             /\ body[1] # 95 /\ body[Len(body)] # 95
             /\ \A k \in 1..(Len(body) - 1) : ~(body[k] = 95 /\ body[k + 1] = 95)
           magnitude == DigitsValue(SelectSeq(body, LAMBDA c : c # 95))
       IN IF wellFormed
          THEN [err |-> "none",
                v |-> IF signed /\ stripped[1] = 45 THEN 0 - magnitude ELSE magnitude]
          ELSE [err |-> "ValueError", v |-> 0]
  ELSE [err |-> "TypeError", v |-> 0]

\* a filters dict given to validate_filters: every key absent (None) or
\* present with a Python value
RawFilters(category, schedule, availability, min_popularity) ==
  [ category |-> category, schedule |-> schedule,
    availability |-> availability, min_popularity |-> min_popularity ]

NoRawFilters == RawFilters(None, None, None, None)

\* `value in a_set_of_str`: hashing an unhashable value is a TypeError
MemberOutcome(value, strings) ==
  IF value.t = "list" THEN "TypeError"
  ELSE IF value.t = "str" /\ value.v \in strings THEN "member"
  ELSE "absent"

\* FilterManager.validate_filters: the dict returned, or the exception that
\* leaves the method (only ValueError and TypeError of int() are caught)
ValidateOutcome(filters, categories, schedules) ==
  LET catTest == IF filters.category # None
                 THEN MemberOutcome(filters.category[1], categories) ELSE "absent"
      schTest == IF filters.schedule # None
                 THEN MemberOutcome(filters.schedule[1], schedules) ELSE "absent"
      conv == IF filters.min_popularity # None
              THEN IntOf(filters.min_popularity[1]) ELSE [err |-> "absent", v |-> 0]
      valid_filters ==
        [ category |-> IF catTest = "member" THEN filters.category ELSE None,
          schedule |-> IF schTest = "member" THEN filters.schedule ELSE None,
          availability |->
            IF filters.availability # None /\ filters.availability[1].t = "bool"
            THEN filters.availability ELSE None,
          min_popularity |->
            IF conv.err = "none" THEN Some(PyInt(conv.v)) ELSE None ]
  IN IF catTest = "TypeError" THEN [raised |-> "TypeError", out |-> NoRawFilters]
     ELSE IF schTest = "TypeError" THEN [raised |-> "TypeError", out |-> NoRawFilters]
     ELSE IF conv.err = "OverflowError"
     THEN [raised |-> "OverflowError", out |-> NoRawFilters]
     ELSE [raised |-> "none", out |-> valid_filters]

\* the outcome of a validate_filters call, with the dict it was given
Validation(op, filters, raised, out) ==
  [op |-> op, filters |-> filters, raised |-> raised, out |-> out]

NoValidation == Validation("none", NoRawFilters, "none", NoRawFilters)

\* FilterManager.update_available_filters
update_available_filters(activities) ==
  /\ available_categories' =
       available_categories \cup {activities[k].category : k \in 1..Len(activities)}
  /\ available_schedules' =
       available_schedules \cup {activities[k].schedule : k \in 1..Len(activities)}
  /\ validated' = Validation("update_available_filters", NoRawFilters, "none", NoRawFilters)

\* FilterManager.validate_filters
validate_filters(filters) ==
  LET outcome == ValidateOutcome(filters, available_categories, available_schedules)
  IN /\ validated' = Validation("validate_filters", filters, outcome.raised, outcome.out)
     /\ UNCHANGED <<available_categories, available_schedules>>

----------------------------------------------------------------------------
(* Inputs of the requests and calls, and the initial states                *)

\* number of students who signed up for the Math Club before the requests
\* that are explored; with the two initial members the club then holds
\* ScriptLen + 2 of its 10 places
ScriptLen == 7

\* number of further students who send signup and unregister requests
NumNewEmails == 2

\* number of worker threads handling requests at the same time
NumThreads == 2

\* number of searches the engine served before the calls that are explored
RecentScriptLen == 9

\* "Math Club" and a name that is no key of the database
MathClub == <<77,97,116,104,32,67,108,117,98>>
UnknownClub == <<85,110,107,110,111,119,110,32,67,108,117,98>>

\* "james@mergington.edu", one of the two initial members of the Math Club
James == <<106,97,109,101,115,64,109,101,114,103,105,110,103,116,111,110,46,101,100,117>>

\* the emails "s1", "s2", ... of the students of the earlier signups and
\* "n1", "n2", ... of the students whose requests are explored
ScriptEmail(k) == <<115, 48 + k>>
NewEmail(k) == <<110, 48 + k>>
NewEmails == {NewEmail(k) : k \in 1..NumNewEmails}

\* the participants lists after the earlier signups, each made by
\* signup_for_activity on the database of the module
RECURSIVE AfterSignups(_)
AfterSignups(k) ==
  IF k = 0 THEN InitialParticipants
  ELSE SignupOutcome(AfterSignups(k - 1), MathClub, ScriptEmail(k)).rosters

\* the queries "q1", "q2", ... of the earlier searches, and the recent-search
\* list they leave, each recorded by _add_recent_search
ScriptQuery(k) == <<113, 48 + k>>

RECURSIVE AfterSearches(_)
AfterSearches(k) ==
  IF k = 0 THEN <<>>
  ELSE _add_recent_search(AfterSearches(k - 1), ScriptQuery(k))

Threads == 1..NumThreads

\* the state after the module is loaded and the objects are constructed
InitObjects ==
  /\ response = NoReply
  /\ handlers = [t \in Threads |-> IdleHandler]
  /\ se_activities = <<>>
  /\ search_index = <<>>
  /\ se_result = NoResult
  /\ available_categories = {}
  /\ available_schedules = {}
  /\ validated = NoValidation

\* a fresh service, or one that has served the earlier signups
Init ==
  /\ InitObjects
  /\ participants \in {InitialParticipants, AfterSignups(ScriptLen)}
  /\ recent_searches = <<>>

\* a fresh service with a fresh engine
InitService ==
  /\ InitObjects
  /\ participants = InitialParticipants
  /\ recent_searches = <<>>

\* a fresh engine, or one that has served the earlier searches
InitEngine ==
  /\ InitObjects
  /\ participants = InitialParticipants
  /\ recent_searches \in {<<>>, AfterSearches(RecentScriptLen)}

----------------------------------------------------------------------------
(* Spec: signup and unregister requests handled one at a time              *)

RequestNames == {MathClub, UnknownClub}
RequestEmails == {James} \cup NewEmails

Signup ==
  \E a \in RequestNames, e \in RequestEmails :
    signup_for_activity(a, e) /\ UNCHANGED <<handlers, engineVars, filterVars>>

Unregister ==
  \E a \in RequestNames, e \in RequestEmails :
    unregister_from_activity(a, e) /\ UNCHANGED <<handlers, engineVars, filterVars>>

Next == Signup \/ Unregister

Spec == Init /\ [][Next]_vars

----------------------------------------------------------------------------
(* Properties of signup and unregister                                     *)

\* no email occurs twice on any participants list
NoDuplicates(rosters) ==
  \A i \in DOMAIN rosters :
    \A j, k \in 1..Len(rosters[i]) : j # k => rosters[i][j] # rosters[i][k]

\* a step in which a request of kind op was answered
Answered(op) ==
  /\ response'.op = op
  /\ (response' # response \/ participants' # participants)

\* what a signup step does to the lists, by the three cases of the request
SignupContract ==
  Answered("signup") =>
    LET e == response'.email
        i == ActivityIndex(response'.activity_name)
    IN IF i = 0
       THEN response'.status = 404 /\ participants' = participants
       ELSE IF InList(e, participants[i])
       THEN response'.status = 400 /\ participants' = participants
       ELSE /\ response'.status = 200
            /\ Len(participants'[i]) = Len(participants[i]) + 1
            /\ InList(e, participants'[i])
            /\ SubSeq(participants'[i], 1, Len(participants[i])) = participants[i]
            /\ \A j \in ActivityKeys : j # i => participants'[j] = participants[j]

\* C1: no roster ever holds the same email twice; a signup for a pair not on
\* the roster succeeds and grows that roster by exactly one entry, a signup
\* for a pair already on it is rejected with status 400 and a signup naming
\* an unknown activity with status 404, both leaving every roster unchanged
C1_SignupKeepsRostersDuplicateFree ==
  /\ [](NoDuplicates(participants))
  /\ [][SignupContract]_vars

\* a second signup of n1 for the Math Club was rejected, n1 is on the list once
C1_Witness ==
  /\ response = Reply("signup", 400, MathClub, NewEmail(1))
  /\ Cardinality({k \in 1..Len(participants[ActivityIndex(MathClub)]) :
        participants[ActivityIndex(MathClub)][k] = NewEmail(1)}) = 1

\* C2: every activity's number of participants is at most its max_participants
C2_CapacityEnforced ==
  \A i \in ActivityKeys : Len(participants[i]) <= ActivityData[i].max_participants

\* what an unregister step does when it rejects the request
UnregisterRejections ==
  Answered("unregister") =>
    LET e == response'.email
        i == ActivityIndex(response'.activity_name)
    IN IF i = 0
       THEN response'.status = 404 /\ participants' = participants
       ELSE IF ~InList(e, participants[i])
       THEN response'.status = 400 /\ participants' = participants
       ELSE response'.status = 200

\* in every state, a signup of an email that is not on the roster followed
\* by the unregister of the same pair gives back the lists of that state
RoundTripRestores ==
  \A a \in RequestNames, e \in RequestEmails :
    (ActivityIndex(a) # 0 /\ ~InList(e, participants[ActivityIndex(a)])) =>
      LET up == SignupOutcome(participants, a, e)
          down == UnregisterOutcome(up.rosters, a, e)
      IN /\ up.status = 200 /\ up.rosters # participants
         /\ down.status = 200 /\ down.rosters = participants

\* C4: a successful signup followed by the unregister of the same pair
\* restores every roster to its earlier contents and order; an unregister of
\* an email not on the roster is rejected with status 400 and one naming an
\* unknown activity with status 404, both leaving every roster unchanged
C4_UnregisterInvertsSignup ==
  /\ [](RoundTripRestores)
  /\ [][UnregisterRejections]_vars

\* n1, no initial member, has just been unregistered from the Math Club and
\* the lists are those the requests started from
C4_Witness ==
  /\ response = Reply("unregister", 200, MathClub, NewEmail(1))
  /\ participants = AfterSignups(ScriptLen)

----------------------------------------------------------------------------
(* SpecSearch: searches between signups and unregisters                    *)

\* q: absent, "CLUB", "compet"
SearchTerms == { None, Some(<<67,76,85,66>>), Some(<<99,111,109,112,101,116>>) }
\* category: absent, "academic"
SearchCategories == { None, Some(<<97,99,97,100,101,109,105,99>>) }
\* day: absent, "monday"
SearchDays == { None, Some(<<109,111,110,100,97,121>>) }
\* sort_by: absent or a value of the SortBy enum
SortBys == { None, Some("name"), Some("participants"), Some("availability") }
Optionals(S) == {None} \cup {Some(v) : v \in S}

SearchSignup ==
  \E e \in {NewEmail(1)} :
    signup_for_activity(MathClub, e) /\ UNCHANGED <<handlers, engineVars, filterVars>>

SearchUnregister ==
  \E e \in {NewEmail(1)} :
    unregister_from_activity(MathClub, e) /\ UNCHANGED <<handlers, engineVars, filterVars>>

SearchRequest ==
  \E q \in SearchTerms, category \in SearchCategories,
     available \in Optionals(BOOLEAN), sort_by \in SortBys, day \in SearchDays :
    /\ search_activities(q, category, available, sort_by, day)
    /\ UNCHANGED <<handlers, engineVars, filterVars>>

NextSearch == SearchSignup \/ SearchUnregister \/ SearchRequest

SpecSearch == Init /\ [][NextSearch]_vars

\* the activities that pass the query and the filters of the last response
Passing ==
  { i \in ActivityKeys :
      Include(i, participants, response.q, response.category,
              response.available, response.day) }

\* remaining capacity of an activity
FreePlaces(i) == ActivityData[i].max_participants - Len(participants[i])

\* entry k of the results may stand before entry l under the sort key
InOrder(k, l) ==
  LET a == response.results[k]
      b == response.results[l]
  IN IF response.sort_by = Some("name")
     THEN /\ ~StrLess(Lower(ActivityData[b].name), Lower(ActivityData[a].name))
          /\ (Lower(ActivityData[a].name) = Lower(ActivityData[b].name) => a < b)
     ELSE IF response.sort_by = Some("participants")
     THEN /\ Len(participants[a]) >= Len(participants[b])
          /\ (Len(participants[a]) = Len(participants[b]) => a < b)
     ELSE IF response.sort_by = Some("availability")
     THEN /\ FreePlaces(a) >= FreePlaces(b)
          /\ (FreePlaces(a) = FreePlaces(b) => a < b)
     ELSE TRUE

\* C9: the results of search_activities are a permutation of the activities
\* that pass the query and filters, in ascending case-insensitive name order,
\* non-increasing participant count or non-increasing remaining capacity;
\* equal keys keep their catalog order; total is the number of results
C9_SearchResultsSorted ==
  response.op = "search" =>
    /\ {response.results[k] : k \in 1..Len(response.results)} = Passing
    /\ Len(response.results) = Cardinality(Passing)
    /\ response.total = Len(response.results)
    /\ \A k, l \in 1..Len(response.results) : k < l => InOrder(k, l)

\* a search sorted by remaining capacity returned the full catalog while the
\* Math Club is full: there are entries with different keys and with equal ones
C9_Witness ==
  /\ response.op = "search" /\ response.sort_by = Some("availability")
  /\ response.total = Len(ActivityData)
  /\ FreePlaces(ActivityIndex(MathClub)) = 0
  /\ \E k, l \in 1..Len(response.results) :
        k < l /\ FreePlaces(response.results[k]) = FreePlaces(response.results[l])
  /\ \E k, l \in 1..Len(response.results) :
        k < l /\ FreePlaces(response.results[k]) > FreePlaces(response.results[l])

----------------------------------------------------------------------------
(* SpecConcurrent: signup and unregister requests handled in worker        *)
(* threads, interleaved between a handler's validation and its mutation    *)

ConcurrentNames == {MathClub, UnknownClub}
ConcurrentEmails == {James, NewEmail(1)}

Validate ==
  \E t \in Threads, op \in {"signup", "unregister"},
     a \in ConcurrentNames, e \in ConcurrentEmails :
    /\ handler_validate(t, op, a, e)
    /\ UNCHANGED <<response, engineVars, filterVars>>

Mutate ==
  \E t \in Threads :
    handler_mutate(t) /\ UNCHANGED <<response, engineVars, filterVars>>

Return ==
  \E t \in Threads :
    handler_return(t) /\ UNCHANGED <<response, engineVars, filterVars>>

NextConcurrent == Validate \/ Mutate \/ Return

SpecConcurrent == Init /\ [][NextConcurrent]_vars

\* the membership test a handler passed still holds of the list it is
\* about to change
ValidationStillHolds(t) ==
  LET h == handlers[t]
      roster == participants[ActivityIndex(h.activity_name)]
  IN h.pc = "mutate" =>
       IF h.op = "signup" THEN ~InList(h.email, roster) ELSE InList(h.email, roster)

\* C3: with handlers interleaved between their membership test and their
\* append or remove, no roster holds an email twice and every request that
\* passed its test mutates a roster on which the test still holds
C3_AtomicCheckThenAct ==
  /\ NoDuplicates(participants)
  /\ \A t \in Threads : ValidationStillHolds(t)

----------------------------------------------------------------------------
(* SpecEngine: a SearchEngine over catalog records, next to the service    *)

\* " ", "Chess CLUB", "club", "xyzzy club"
BlankQuery == <<32>>
EngineQueries == { BlankQuery, <<67,104,101,115,115,32,67,76,85,66>>,
                   <<99,108,117,98>>, <<120,121,122,122,121,32,99,108,117,98>> }

\* no filters, availability alone, and category "Academic" with availability
\* False and a minimum popularity
EngineFilters ==
  { NoFilters,
    Filters(None, Some(TRUE), None, None),
    Filters(Some(<<65,99,97,100,101,109,105,99>>), Some(FALSE), None, Some(5)) }

EngineAssign ==
  assign_activities /\ UNCHANGED <<appVars, handlers, filterVars>>

EngineIndex ==
  \E k \in 1..Len(EngineCatalog) :
    index_activity(EngineCatalog[k]) /\ UNCHANGED <<appVars, handlers, filterVars>>

EngineSearch ==
  \E query \in EngineQueries, filters \in EngineFilters :
    search(query, filters) /\ UNCHANGED <<appVars, handlers, filterVars>>

NextEngine == EngineAssign \/ EngineIndex \/ EngineSearch

SpecEngine == InitService /\ [][NextEngine]_vars

\* the lowercased tokens of the searchable text of a record
Tokens(activity) ==
  LET words == Split(Lower(_create_searchable_text(activity)))
  IN {words[k] : k \in 1..Len(words)}

\* index_activity has been called for every record of the engine's catalog
CatalogIndexed ==
  /\ se_activities # <<>>
  /\ \A k \in 1..Len(se_activities) :
       \A w \in Tokens(se_activities[k]) :
         se_activities[k].id \in IndexGet(search_index, w)

\* the lowercased whitespace-delimited terms of a query
Terms(query) ==
  LET words == Split(Lower(query)) IN {words[k] : k \in 1..Len(words)}

ResultSet == {se_result.out[k] : k \in 1..Len(se_result.out)}

\* C7: on an engine whose catalog is indexed, search(q) with a non-blank q
\* and no filters returns exactly the catalog activities whose searchable
\* text has every lowercased term of q among its tokens, each once, so a
\* query made of an activity's own name finds it; a query with a term that
\* has no postings returns nothing
C7_SearchIsAndOverTerms ==
  (se_result.op = "search" /\ ~IsBlank(se_result.query)) =>
    /\ (CatalogIndexed /\ se_result.filters = NoFilters) =>
         /\ ResultSet =
              { se_activities[k] : k \in
                  { j \in 1..Len(se_activities) :
                      Terms(se_result.query) \subseteq Tokens(se_activities[j]) } }
         /\ Cardinality(ResultSet) = Len(se_result.out)
         /\ \A k \in 1..Len(se_activities) :
              Terms(se_result.query) = Terms(se_activities[k].name)
                => se_activities[k] \in ResultSet
    /\ (\E w \in Terms(se_result.query) : IndexGet(search_index, w) = {})
         => se_result.out = <<>>

\* on the indexed catalog the query "Chess CLUB" returned the Chess Club alone
C7_Witness ==
  /\ CatalogIndexed
  /\ se_result = Result("search", <<67,104,101,115,115,32,67,76,85,66>>, NoFilters,
                        <<EngineCatalog[1]>>)

----------------------------------------------------------------------------
(* SpecAvailability: both search paths with filters, between signups and   *)
(* unregisters                                                             *)

AvailabilityAssign ==
  assign_activities /\ UNCHANGED <<appVars, handlers, filterVars>>

AvailabilityFilter ==
  \E filters \in EngineFilters \ {NoFilters} :
    filter_activities(filters) /\ UNCHANGED <<appVars, handlers, filterVars>>

AvailabilitySearch ==
  \E filters \in EngineFilters :
    search(BlankQuery, filters) /\ UNCHANGED <<appVars, handlers, filterVars>>

AvailabilitySignup ==
  /\ signup_for_activity(MathClub, NewEmail(1))
  /\ UNCHANGED <<handlers, engineVars, filterVars>>

AvailabilityUnregister ==
  /\ unregister_from_activity(MathClub, NewEmail(1))
  /\ UNCHANGED <<handlers, engineVars, filterVars>>

AvailabilityHttpSearch ==
  \E available \in BOOLEAN, category \in SearchCategories :
    /\ search_activities(None, category, Some(available), Some("name"), None)
    /\ UNCHANGED <<handlers, engineVars, filterVars>>

NextAvailability ==
  \/ AvailabilityAssign \/ AvailabilityFilter \/ AvailabilitySearch
  \/ AvailabilitySignup \/ AvailabilityUnregister \/ AvailabilityHttpSearch

SpecAvailability == Init /\ [][NextAvailability]_vars

\* the activity has a free place
HasSpace(name) ==
  Len(participants[ActivityIndex(name)])
    < ActivityData[ActivityIndex(name)].max_participants

\* the record satisfies every filter that is set
Matches(activity, filters) ==
  /\ filters.category # None => activity.category = filters.category[1]
  /\ filters.availability # None => HasSpace(activity.name) = filters.availability[1]
  /\ filters.schedule # None => activity.schedule = filters.schedule[1]
  /\ filters.min_popularity # None => activity.popularity >= filters.min_popularity[1]

\* a step in which the engine returned a list of activities
EngineAnswered ==
  se_result' # se_result /\ se_result'.op \in {"search", "filter_activities"}

\* C6: every activity a search returns satisfies every active filter, and
\* the availability filter keeps exactly the activities with (True) or
\* without (False) a free place, on both search paths
C6_ResultsSatisfyFilters ==
  [][ /\ EngineAnswered =>
           /\ \A k \in 1..Len(se_result'.out) :
                Matches(se_result'.out[k], se_result'.filters)
           /\ se_result'.op = "filter_activities" =>
                se_result'.out =
                  SelectSeq(se_activities, LAMBDA a : Matches(a, se_result'.filters))
      /\ Answered("search") =>
           \A i \in ActivityKeys :
             InList(i, response'.results)
               <=> /\ Include(i, participants, response'.q, response'.category,
                              None, response'.day)
                   /\ response'.available # None =>
                        response'.available[1] =
                          (Len(participants[i]) < ActivityData[i].max_participants)
    ]_vars

----------------------------------------------------------------------------
(* SpecRecent: searches, indexing and suggestions on one engine            *)

\* " ", "chess", "Chess Club" and "q1", the oldest of the earlier queries
RecentQueries == { BlankQuery, <<99,104,101,115,115>>,
                   <<67,104,101,115,115,32,67,108,117,98>>, ScriptQuery(1) }

\* "", "c", "CH", "q" and " "
PartialQueries == { <<>>, <<99>>, <<67,72>>, <<113>>, <<32>> }

RecentSearch ==
  \E query \in RecentQueries :
    search(query, NoFilters) /\ UNCHANGED <<appVars, handlers, filterVars>>

RecentIndex ==
  \E k \in 1..2 :
    index_activity(EngineCatalog[k]) /\ UNCHANGED <<appVars, handlers, filterVars>>

RecentSuggest ==
  \E partial_query \in PartialQueries :
    get_suggestions(partial_query) /\ UNCHANGED <<appVars, handlers, filterVars>>

NextRecent == RecentSearch \/ RecentIndex \/ RecentSuggest

SpecRecent == InitEngine /\ [][NextRecent]_vars

\* no entry occurs twice in the list
Distinct(list) == \A j, k \in 1..Len(list) : j # k => list[j] # list[k]

\* a step in which a search call returned
Searched ==
  /\ se_result'.op = "search"
  /\ (se_result' # se_result \/ recent_searches' # recent_searches)

\* what a search does to the recent-search list
RecentContract ==
  Searched =>
    LET query == se_result'.query IN
    IF IsBlank(query)
    THEN recent_searches' = recent_searches
    ELSE /\ recent_searches'[1] = query
         /\ Tail(recent_searches') =
              Take(SelectSeq(recent_searches, LAMBDA s : s # query), MaxRecent - 1)

\* C5: the recent-search list has at most 10 entries and no query twice; a
\* non-blank query becomes the first entry, the other entries keep their
\* relative order and the oldest is dropped past 10; a blank query leaves
\* the list unchanged
C5_RecentSearchList ==
  /\ [](Len(recent_searches) <= 10 /\ Distinct(recent_searches))
  /\ [][RecentContract]_vars

\* "Chess Club" was searched on a full list of ten: it is first, "chess"
\* second, and the oldest entry "q1" is gone
C5_Witness ==
  /\ se_result.op = "search"
  /\ se_result.query = <<67,104,101,115,115,32,67,108,117,98>>
  /\ Len(recent_searches) = 10
  /\ recent_searches[1] = <<67,104,101,115,115,32,67,108,117,98>>
  /\ recent_searches[2] = <<99,104,101,115,115>>
  /\ ~InList(ScriptQuery(1), recent_searches)
  /\ InList(ScriptQuery(2), recent_searches)

\* the recent searches that contain the partial query, case-insensitively
MatchingRecent(partial_query) ==
  SelectSeq(recent_searches, LAMBDA s : Contains(Lower(partial_query), Lower(s)))

IndexedWords == {search_index[k][1] : k \in 1..Len(search_index)}

\* the suggestions returned for the partial query of the last call
SuggestionsContract ==
  LET partial_query == se_result.query
      out == se_result.out
      matching == MatchingRecent(partial_query)
      n == IF Len(matching) < 5 THEN Len(matching) ELSE 5
  IN IF partial_query = <<>>
     THEN out = SubSeq(recent_searches, 1,
                       IF Len(recent_searches) < 5 THEN Len(recent_searches) ELSE 5)
     ELSE /\ Len(out) <= 5
          /\ Distinct(out)
          /\ Len(out) >= n
          /\ SubSeq(out, 1, n) = SubSeq(matching, 1, n)
          /\ \A k \in (n + 1)..Len(out) :
               /\ out[k] \in IndexedWords
               /\ StartsWith(out[k], Lower(partial_query))
               /\ ~InList(out[k], matching)

\* C8: get_suggestions returns the first five recent searches for an empty
\* partial query; otherwise at most five entries, none repeated, the recent
\* searches containing the partial query first and in recency order, then
\* indexed words that start with it; the call changes neither the
\* recent-search list nor the index
C8_Suggestions ==
  /\ [](se_result.op = "get_suggestions" => SuggestionsContract)
  /\ [][(se_result'.op = "get_suggestions" /\ se_result' # se_result) =>
          (recent_searches' = recent_searches /\ search_index' = search_index)]_vars

\* for "c" two recent searches and more than three indexed words qualify:
\* five suggestions came back, recent searches first, an indexed word last
C8_Witness ==
  /\ se_result.op = "get_suggestions" /\ se_result.query = <<99>>
  /\ Len(MatchingRecent(<<99>>)) = 2
  /\ Cardinality({w \in IndexedWords : StartsWith(w, <<99>>)}) > 4
  /\ Len(se_result.out) = 5
  /\ se_result.out[1] = recent_searches[1]
  /\ se_result.out[5] \in IndexedWords

----------------------------------------------------------------------------
(* SpecFilters: a FilterManager that learns filter options and validates   *)
(* filters dicts                                                           *)

\* category: absent, "Academic", "Sports"
RawCategories == { None, Some(PyStr(<<65,99,97,100,101,109,105,99>>)),
                   Some(PyStr(<<83,112,111,114,116,115>>)) }

\* schedule: absent, the schedule of the Chess Club
RawSchedules == { None, Some(PyStr(ActivityData[1].schedule)) }

\* availability: absent, True, "yes"
RawAvailabilities == { None, Some(PyBool(TRUE)), Some(PyStr(<<121,101,115>>)) }

\* min_popularity: absent, 5, 0, -1, True, "5", " 7 ", "-2", "1_0", "abc",
\* 3.5, -3.5, inf, nan, None, []
RawPopularities ==
  { None, Some(PyInt(5)), Some(PyInt(0)), Some(PyInt(0 - 1)), Some(PyBool(TRUE)),
    Some(PyStr(<<53>>)), Some(PyStr(<<32,55,32>>)), Some(PyStr(<<45,50>>)),
    Some(PyStr(<<49,95,48>>)), Some(PyStr(<<97,98,99>>)),
    Some(PyFloat(7, 2)), Some(PyFloat(0 - 7, 2)), Some(PyFloat(1, 0)),
    Some(PyFloat(0, 0)), Some(PyNone), Some(PyList) }

\* the lists of activities given to update_available_filters
ActivityLists == { <<>>, <<EngineCatalog[1]>>, EngineCatalog }

FiltersUpdate ==
  \E activities \in ActivityLists :
    update_available_filters(activities) /\ UNCHANGED <<appVars, handlers, engineVars>>

FiltersValidate ==
  \E category \in RawCategories, schedule \in RawSchedules,
     availability \in RawAvailabilities, min_popularity \in RawPopularities :
    /\ validate_filters(RawFilters(category, schedule, availability, min_popularity))
    /\ UNCHANGED <<appVars, handlers, engineVars>>

NextFilters == FiltersUpdate \/ FiltersValidate

SpecFilters == InitService /\ [][NextFilters]_vars

\* the value is a non-negative integer (bool is a subclass of int)
IsNonNegativeInteger(value) == value.t \in {"int", "bool"} /\ value.v[1] >= 0

\* C10: validate_filters returns without raising for every filters dict; the
\* returned dict has availability only when the given value is a boolean and
\* min_popularity only when it is a non-negative integer, every key with an
\* invalid value is absent, and the option sets are left unchanged
C10_ValidationSanitizes ==
  /\ [](validated.op = "validate_filters" =>
          /\ validated.raised = "none"
          /\ validated.out.availability # None =>
               validated.filters.availability[1].t = "bool"
          /\ validated.out.min_popularity # None =>
               IsNonNegativeInteger(validated.filters.min_popularity[1]))
  /\ [][validated'.op = "validate_filters" =>
          /\ available_categories' = available_categories
          /\ available_schedules' = available_schedules]_vars

====
